---- MODULE Spec2Model ----
(***************************************************************************)
(* A model of ts-maybe (src/src/maybe.ts): the Maybe<T> tagged union and   *)
(* the functions over it.                                                  *)
(*                                                                         *)
(* JavaScript values are tagged records.  Objects (Maybe instances, arrays,*)
(* the { value1, value2 } records of map2/bind2/map3, Error objects) live  *)
(* in a heap and are denoted by references, so that "a new instance" and   *)
(* "the same instance" are different things, as they are in the program.   *)
(* Every function takes the world w = [heap, calls] it runs in and returns *)
(* a completion [type, value, w]: w.calls is the log of the invocations of *)
(* the caller-supplied callbacks (a call-count probe).                     *)
(* Closures are records [code |-> ..., captured variables]; Call runs the  *)
(* body of the closure it is given.                                        *)
(***************************************************************************)
EXTENDS Integers, Sequences, FiniteSets, TLC

VARIABLES
    heap,     \* the objects allocated so far; a reference is an index into it
    calls,    \* the callback invocations made during the last library call
    call,     \* the last library call made by the client: [op, fn, args]
    result    \* how that call completed: [type, value]

vars == <<heap, calls, call, result>>

----------------------------------------------------------------------------
(* Bounds of the model *)

\* Instances a client of the one-argument functions builds before its call.
MaxInputs == 2
\* Instances a client of map2, map3, bind2 and combine builds before its call.
MaxInputsN == 3
\* Longest array handed to combine.
MaxList == 3

----------------------------------------------------------------------------
(* JavaScript values *)

Undefined == [type |-> "undefined"]
Null == [type |-> "null"]
Bool(b) == [type |-> "boolean", bool |-> b]
Num(n) == [type |-> "number", num |-> n, nan |-> FALSE]
NaN == [type |-> "number", num |-> 0, nan |-> TRUE]
Str(s) == [type |-> "string", str |-> s]
Ref(a) == [type |-> "object", addr |-> a]

\* The primitive values clients pass in: every falsy kind and some truthy ones.
Values ==
    {Undefined, Null, Bool(FALSE), Bool(TRUE), Num(0), Num(1), NaN,
     Str(""), Str("foo")}

\* The payloads used by the clients of the several-argument functions.
PayloadsN == {Undefined, Num(0), Str("foo")}

\* `!!value`: ECMAScript ToBoolean.
ToBoolean(v) ==
    CASE v.type = "undefined" -> FALSE
      [] v.type = "null" -> FALSE
      [] v.type = "boolean" -> v.bool
      [] v.type = "number" -> ~(v.nan \/ v.num = 0)
      [] v.type = "string" -> v.str # ""
      [] v.type = "object" -> TRUE

\* `x == y` (ECMAScript IsLooselyEqual) for operands of one type, and for the
\* case that one operand is null or undefined: the only uses the library makes.
IsLooselyEqual(x, y) ==
    CASE x.type = y.type ->
            IF x.type = "number" THEN ~x.nan /\ ~y.nan /\ x.num = y.num ELSE x = y
      [] x.type # y.type /\ {x.type, y.type} \subseteq {"null", "undefined"} -> TRUE
      [] x.type # y.type /\ {x.type, y.type} \cap {"null", "undefined"} # {}
            /\ ~({x.type, y.type} \subseteq {"null", "undefined"}) -> FALSE

----------------------------------------------------------------------------
(* Worlds and completions *)

Normal(v, w) == [type |-> "normal", value |-> v, w |-> w]
Throw(v, w) == [type |-> "throw", value |-> v, w |-> w]

\* An object literal or `new`: a fresh object at a fresh address.
Alloc(obj, w) == Normal(Ref(Len(w.heap) + 1), [w EXCEPT !.heap = Append(@, obj)])

\* The object a reference denotes.
Load(ref, w) == w.heap[ref.addr]

RECURSIVE Call(_, _, _)

----------------------------------------------------------------------------
(* The library *)

Some(val, w) == Alloc([kind |-> "Some", value |-> val], w)

None(w) == Alloc([kind |-> "None"], w)

\* ofVal with `value !== null` as its only check when useTruthyCheck is false.
ofVal_strictNull(val, useTruthyCheck, w) ==
    LET flag == IF useTruthyCheck = Undefined THEN Bool(FALSE) ELSE useTruthyCheck
        check == IF ToBoolean(flag) THEN ToBoolean(val) ELSE val # Null
    IN IF check THEN Some(val, w) ELSE None(w)

\* useTruthyCheck is Undefined when the argument is omitted (default: false).
ofVal(val, useTruthyCheck, w) ==
    LET flag == IF useTruthyCheck = Undefined THEN Bool(FALSE) ELSE useTruthyCheck
        check == IF ToBoolean(flag)
                 THEN ToBoolean(val)
                 ELSE ~IsLooselyEqual(val, Null) /\ ~IsLooselyEqual(val, Undefined)
    IN IF check THEN Some(val, w) ELSE None(w)

\* ofNullable delegating to ofVal with the truthy check on.
ofNullable_truthy(val, w) ==
    IF IsLooselyEqual(val, Null) THEN None(w) ELSE ofVal(val, Bool(TRUE), w)

ofNullable(val, w) ==
    IF IsLooselyEqual(val, Null) THEN None(w) ELSE ofVal(val, Undefined, w)

ofUndefinable(val, w) ==
    IF IsLooselyEqual(val, Undefined) THEN None(w) ELSE ofVal(val, Undefined, w)

toNullable(maybe, w) ==
    LET m == Load(maybe, w)
    IN CASE m.kind = "None" -> Normal(Null, w)
         [] m.kind = "Some" -> Normal(m.value, w)
         [] OTHER -> Normal(Undefined, w)

isSome(maybe, w) == Normal(Bool(Load(maybe, w).kind = "Some"), w)

isNone(maybe, w) == Normal(Bool(Load(maybe, w).kind = "None"), w)

\* `new Error(message)`: an Error object, whose name is "Error".
NewError(message, w) ==
    Alloc([kind |-> "Error", name |-> "Error", message |-> message], w)

\* get without its 'None' case: `return maybe.value` whatever the kind.
get_unchecked(maybe, w) ==
    LET m == Load(maybe, w)
    IN IF m.kind = "Some" THEN Normal(m.value, w) ELSE Normal(Undefined, w)

get(maybe, w) ==
    LET m == Load(maybe, w)
    IN CASE m.kind = "None" ->
              LET e == NewError("Expected 'Some' but was given 'None'", w)
              IN Throw(e.value, e.w)
         [] m.kind = "Some" -> Normal(m.value, w)
         [] OTHER -> Normal(Undefined, w)

\* map in place: `maybe.value = mapper(maybe.value); return maybe`.
map_inPlace(mapper, maybe, w) ==
    LET m == Load(maybe, w)
    IN CASE m.kind = "None" -> None(w)
         [] m.kind = "Some" ->
              LET r == Call(mapper, <<m.value>>, w)
              IN Normal(maybe, [r.w EXCEPT !.heap[maybe.addr].value = r.value])
         [] OTHER -> Normal(Undefined, w)

\* map evaluating `mapper(maybe.value)` twice.
map_callsTwice(mapper, maybe, w) ==
    LET m == Load(maybe, w)
    IN CASE m.kind = "None" -> None(w)
         [] m.kind = "Some" ->
              LET r1 == Call(mapper, <<m.value>>, w)
                  r == Call(mapper, <<m.value>>, r1.w)
              IN Some(r.value, r.w)
         [] OTHER -> Normal(Undefined, w)

\* map lifting the mapper's result with ofVal instead of wrapping it in Some.
map_liftsResult(mapper, maybe, w) ==
    LET m == Load(maybe, w)
    IN CASE m.kind = "None" -> None(w)
         [] m.kind = "Some" ->
              LET r == Call(mapper, <<m.value>>, w) IN ofVal(r.value, Undefined, r.w)
         [] OTHER -> Normal(Undefined, w)

map(mapper, maybe, w) ==
    LET m == Load(maybe, w)
    IN CASE m.kind = "None" -> None(w)
         [] m.kind = "Some" ->
              LET r == Call(mapper, <<m.value>>, w) IN Some(r.value, r.w)
         [] OTHER -> Normal(Undefined, w)

\* bind wrapping the binder's result in Some, as map does.
bind_wrapsResult(binder, maybe, w) ==
    LET m == Load(maybe, w)
    IN CASE m.kind = "None" -> None(w)
         [] m.kind = "Some" ->
              LET r == Call(binder, <<m.value>>, w) IN Some(r.value, r.w)
         [] OTHER -> Normal(Undefined, w)

bind(binder, maybe, w) ==
    LET m == Load(maybe, w)
    IN CASE m.kind = "None" -> None(w)
         [] m.kind = "Some" -> Call(binder, <<m.value>>, w)
         [] OTHER -> Normal(Undefined, w)

\* map2: `values => mapper(values.value1, values.value2)`
map2_mapper(self, args, w) ==
    LET values == Load(args[1], w)
    IN Call(self.mapper, <<values.fields.value1, values.fields.value2>>, w)

\* map2: `value2 => ({ value1: value1, value2: value2 })`
map2_pair(self, args, w) ==
    Alloc([kind |-> "Object",
           fields |-> [value1 |-> self.value1, value2 |-> args[1]]], w)

\* map2: `value1 => map(value2 => ..., maybe2)`
map2_binder(self, args, w) ==
    map([code |-> "map2_pair", value1 |-> args[1]], self.maybe2, w)

map2(mapper, maybe1, maybe2, w) ==
    LET inner == bind([code |-> "map2_binder", maybe2 |-> maybe2], maybe1, w)
    IN map([code |-> "map2_mapper", mapper |-> mapper], inner.value, inner.w)

\* bind2: `values => binder(values.value1, values.value2)`
bind2_binder(self, args, w) ==
    LET values == Load(args[1], w)
    IN Call(self.binder, <<values.fields.value1, values.fields.value2>>, w)

\* bind2: `value2 => ({ value1: value1, value2: value2 })`
bind2_pair(self, args, w) ==
    Alloc([kind |-> "Object",
           fields |-> [value1 |-> self.value1, value2 |-> args[1]]], w)

\* bind2: `value1 => map(value2 => ..., maybe2)`
bind2_inner(self, args, w) ==
    map([code |-> "bind2_pair", value1 |-> args[1]], self.maybe2, w)

bind2(binder, maybe1, maybe2, w) ==
    LET inner == bind([code |-> "bind2_inner", maybe2 |-> maybe2], maybe1, w)
    IN bind([code |-> "bind2_binder", binder |-> binder], inner.value, inner.w)

\* map3's mapper call with value1 and value3 exchanged.
map3_mapper_swapped(self, args, w) ==
    LET values == Load(args[1], w)
    IN Call(self.mapper,
            <<values.fields.value3, values.fields.value2, values.fields.value1>>, w)

\* map3: `values => mapper(values.value1, values.value2, values.value3)`
map3_mapper(self, args, w) ==
    LET values == Load(args[1], w)
    IN Call(self.mapper,
            <<values.fields.value1, values.fields.value2, values.fields.value3>>, w)

\* map3: `value3 => ({ value1: value1, value2: value2, value3: value3 })`
map3_triple(self, args, w) ==
    Alloc([kind |-> "Object",
           fields |-> [value1 |-> self.value1, value2 |-> self.value2,
                       value3 |-> args[1]]], w)

\* map3: `(value1, value2) => map(value3 => ..., maybe3)`
map3_binder(self, args, w) ==
    map([code |-> "map3_triple", value1 |-> args[1], value2 |-> args[2]],
        self.maybe3, w)

map3(mapper, maybe1, maybe2, maybe3, w) ==
    LET inner == bind2([code |-> "map3_binder", maybe3 |-> maybe3], maybe1, maybe2, w)
    IN map([code |-> "map3_mapper", mapper |-> mapper], inner.value, inner.w)

\* combine prepending: `value2 => [value2, ...value]`.
combine_mapper_prepends(self, args, w) ==
    Alloc([kind |-> "Array", elems |-> <<args[1]>> \o Load(self.value, w).elems], w)

\* combine: `value2 => [...value, value2]`
combine_mapper(self, args, w) ==
    Alloc([kind |-> "Array", elems |-> Append(Load(self.value, w).elems, args[1])], w)

\* combine: `value => map(value2 => [...value, value2], curr)`
combine_binder(self, args, w) ==
    map([code |-> "combine_mapper", value |-> args[1]], self.curr, w)

\* combine: `(acc, curr) => bind(value => ..., acc)`
combine_reducer(self, args, w) ==
    bind([code |-> "combine_binder", curr |-> args[2]], args[1], w)

\* Array.prototype.reduce with an initial value, from index k on.
RECURSIVE reduce(_, _, _, _, _)
reduce(callbackfn, array, k, accumulator, w) ==
    IF k > Len(Load(array, w).elems)
    THEN Normal(accumulator, w)
    ELSE LET r == Call(callbackfn, <<accumulator, Load(array, w).elems[k]>>, w)
         IN reduce(callbackfn, array, k + 1, r.value, r.w)

combine(maybes, w) ==
    LET empty == Alloc([kind |-> "Array", elems |-> <<>>], w)
        initial == Some(empty.value, empty.w)
    IN reduce([code |-> "combine_reducer"], maybes, 1, initial.value, initial.w)

\* iter without its switch: `action(maybe.value)` whatever the kind.
iter_unchecked(action, maybe, w) ==
    LET m == Load(maybe, w)
        r == Call(action, <<IF m.kind = "Some" THEN m.value ELSE Undefined>>, w)
    IN Normal(Undefined, r.w)

iter(action, maybe, w) ==
    LET m == Load(maybe, w)
    IN CASE m.kind = "Some" ->
              LET r == Call(action, <<m.value>>, w) IN Normal(Undefined, r.w)
         [] OTHER -> Normal(Undefined, w)

\* withDefault deciding by the payload: `maybe.value ?? def`.
withDefault_nullish(def, maybe, w) ==
    LET m == Load(maybe, w)
    IN IF m.kind = "Some" /\ m.value \notin {Null, Undefined}
       THEN Normal(m.value, w)
       ELSE Normal(def, w)

withDefault(def, maybe, w) ==
    LET m == Load(maybe, w)
    IN CASE m.kind = "Some" -> Normal(m.value, w)
         [] m.kind = "None" -> Normal(def, w)
         [] OTHER -> Normal(Undefined, w)

----------------------------------------------------------------------------
(* The callbacks clients supply, as the test suite's: each one is probed,   *)
(* its invocation logged in w.calls (name, arguments, returned value) when  *)
(* it returns.                                                              *)

Probe(self, args, r) ==
    Normal(r.value,
           [r.w EXCEPT !.calls = Append(@, [fn |-> self.name, args |-> args,
                                            ret |-> r.value])])

\* Mappers: `value => value`, `value => !value`, `() => undefined`,
\* `(...vs) => vs` (every argument, in its position), `(...vs) => vs[last]`.
UserMapper(self, args, w) ==
    Probe(self, args,
          CASE self.name = "id" -> Normal(args[1], w)
            [] self.name = "not" -> Normal(Bool(~ToBoolean(args[1])), w)
            [] self.name = "constUndefined" -> Normal(Undefined, w)
            [] self.name = "pack" -> Alloc([kind |-> "Array", elems |-> args], w)
            [] self.name = "last" -> Normal(args[Len(args)], w))

\* Binders: `v => Some(v)`, `v => None()`, `(..., v) => ofVal(v, true)`, and
\* `() => maybe`, which returns an instance the client built before.
UserBinder(self, args, w) ==
    Probe(self, args,
          CASE self.name = "some" -> Some(args[1], w)
            [] self.name = "none" -> None(w)
            [] self.name = "truthy" -> ofVal(args[Len(args)], Bool(TRUE), w)
            [] self.name = "existing" -> Normal(self.maybe, w))

\* The closures the map/bind laws are stated with: `x => g(f(x))`
UserCompose(self, args, w) ==
    LET r == Call(self.f, args, w) IN Call(self.g, <<r.value>>, r.w)

\* `x => Some(f(x))`
UserSomeOf(self, args, w) ==
    LET r == Call(self.f, args, w) IN Some(r.value, r.w)

Mapper(name) == [code |-> "mapper", name |-> name]
Binder(name) == [code |-> "binder", name |-> name]
Compose(g, f) == [code |-> "compose", g |-> g, f |-> f]
SomeOf(f) == [code |-> "someOf", f |-> f]

Mappers1 == {Mapper("id"), Mapper("not"), Mapper("constUndefined")}
MappersN == {Mapper("pack"), Mapper("last")}
Existing(maybe) == [code |-> "binder", name |-> "existing", maybe |-> maybe]
Binders == {Binder("some"), Binder("none"), Binder("truthy")}

\* A function call: the body of the closure fn, run on args in w.
Call(fn, args, w) ==
    CASE fn.code = "mapper" -> UserMapper(fn, args, w)
      [] fn.code = "binder" -> UserBinder(fn, args, w)
      [] fn.code = "compose" -> UserCompose(fn, args, w)
      [] fn.code = "someOf" -> UserSomeOf(fn, args, w)
      [] fn.code = "map2_mapper" -> map2_mapper(fn, args, w)
      [] fn.code = "map2_pair" -> map2_pair(fn, args, w)
      [] fn.code = "map2_binder" -> map2_binder(fn, args, w)
      [] fn.code = "bind2_binder" -> bind2_binder(fn, args, w)
      [] fn.code = "bind2_pair" -> bind2_pair(fn, args, w)
      [] fn.code = "bind2_inner" -> bind2_inner(fn, args, w)
      [] fn.code = "map3_mapper" -> map3_mapper(fn, args, w)
      [] fn.code = "map3_triple" -> map3_triple(fn, args, w)
      [] fn.code = "map3_binder" -> map3_binder(fn, args, w)
      [] fn.code = "combine_mapper" -> combine_mapper(fn, args, w)
      [] fn.code = "combine_binder" -> combine_binder(fn, args, w)
      [] fn.code = "combine_reducer" -> combine_reducer(fn, args, w)

----------------------------------------------------------------------------
(* Clients: a client builds some instances with the constructors and the   *)
(* lifting functions, then makes one call of a function over them.         *)

NoFn == [code |-> "none"]

BuildOps == {"init", "Some", "None", "ofVal", "ofNullable", "ofUndefinable"}

\* The client has made no call over its instances yet.
Building == call.op \in BuildOps

\* The Maybe instances of a heap, and of the current one.
MaybesOf(h) == {Ref(a) : a \in {i \in 1..Len(h) : h[i].kind \in {"Some", "None"}}}
Maybes == MaybesOf(heap)

\* The world a call starts in: the current heap and a fresh probe.
World0 == [heap |-> heap, calls |-> <<>>]

\* The arrays of at most n of the instances in ms.
ListsOf(ms, n) == UNION {[1..k -> ms] : k \in 0..n}

\* The call op(fn, args) completes as r.
Invoke(op, fn, args, r) ==
    /\ heap' = r.w.heap
    /\ calls' = r.w.calls
    /\ call' = [op |-> op, fn |-> fn, args |-> args]
    /\ result' = [type |-> r.type, value |-> r.value]

Init ==
    /\ heap = <<>>
    /\ calls = <<>>
    /\ call = [op |-> "init", fn |-> NoFn, args |-> <<>>]
    /\ result = [type |-> "none", value |-> Undefined]

CallSome(V, K) ==
    /\ Building /\ Len(heap) < K
    /\ \E val \in V :
          Invoke("Some", NoFn, <<val>>, Some(val, World0))

CallNone(K) ==
    /\ Building /\ Len(heap) < K
    /\ Invoke("None", NoFn, <<>>, None(World0))

CallOfVal(V, K) ==
    /\ Building /\ Len(heap) < K
    /\ \E val \in V, useTruthyCheck \in {Undefined, Bool(FALSE), Bool(TRUE)} :
        /\ Invoke("ofVal", NoFn, <<val, useTruthyCheck>>,
                  ofVal(val, useTruthyCheck, World0))

CallOfNullable(V, K) ==
    /\ Building /\ Len(heap) < K
    /\ \E val \in V :
          Invoke("ofNullable", NoFn, <<val>>, ofNullable(val, World0))

CallOfUndefinable(V, K) ==
    /\ Building /\ Len(heap) < K
    /\ \E val \in V :
          Invoke("ofUndefinable", NoFn, <<val>>, ofUndefinable(val, World0))

CallToNullable ==
    /\ Building
    /\ \E maybe \in Maybes :
        /\ Invoke("toNullable", NoFn, <<maybe>>, toNullable(maybe, World0))

CallIsSome ==
    /\ Building
    /\ \E maybe \in Maybes :
        /\ Invoke("isSome", NoFn, <<maybe>>, isSome(maybe, World0))

CallIsNone ==
    /\ Building
    /\ \E maybe \in Maybes :
        /\ Invoke("isNone", NoFn, <<maybe>>, isNone(maybe, World0))

CallGet ==
    /\ Building
    /\ \E maybe \in Maybes :
        /\ Invoke("get", NoFn, <<maybe>>, get(maybe, World0))

CallMap ==
    /\ Building
    /\ \E mapper \in Mappers1, maybe \in Maybes :
        /\ Invoke("map", mapper, <<maybe>>, map(mapper, maybe, World0))

CallBind ==
    /\ Building
    /\ \E binder \in Binders, maybe \in Maybes :
        /\ Invoke("bind", binder, <<maybe>>, bind(binder, maybe, World0))

CallMap2 ==
    /\ Building
    /\ \E mapper \in MappersN, maybe1 \in Maybes, maybe2 \in Maybes :
        /\ Invoke("map2", mapper, <<maybe1, maybe2>>,
                  map2(mapper, maybe1, maybe2, World0))

CallMap3 ==
    /\ Building
    /\ \E mapper \in MappersN, maybe1 \in Maybes, maybe2 \in Maybes, maybe3 \in Maybes :
        /\ Invoke("map3", mapper, <<maybe1, maybe2, maybe3>>,
                  map3(mapper, maybe1, maybe2, maybe3, World0))

CallBind2 ==
    /\ Building
    /\ \E binder \in Binders, maybe1 \in Maybes, maybe2 \in Maybes :
        /\ Invoke("bind2", binder, <<maybe1, maybe2>>,
                  bind2(binder, maybe1, maybe2, World0))

\* combine([m1, ..., mk]): the client's array literal, then the call.
CallCombine ==
    /\ Building
    /\ \E list \in ListsOf(Maybes, MaxList) :
        /\ LET maybes == Alloc([kind |-> "Array", elems |-> list], World0)
           IN Invoke("combine", NoFn, <<maybes.value>>,
                     combine(maybes.value, maybes.w))

CallIter ==
    /\ Building
    /\ \E action \in Mappers1, maybe \in Maybes :
        /\ Invoke("iter", action, <<maybe>>, iter(action, maybe, World0))

CallWithDefault ==
    /\ Building
    /\ \E def \in Values, maybe \in Maybes :
        /\ Invoke("withDefault", NoFn, <<def, maybe>>,
                  withDefault(def, maybe, World0))

\* Clients of the constructors, the lifting functions and the functions of one
\* Maybe argument; a payload is a primitive or an instance built before.
Next ==
    \/ CallSome(Values \cup Maybes, MaxInputs)
    \/ CallNone(MaxInputs)
    \/ CallOfVal(Values \cup Maybes, MaxInputs)
    \/ CallOfNullable(Values \cup Maybes, MaxInputs)
    \/ CallOfUndefinable(Values \cup Maybes, MaxInputs)
    \/ CallToNullable
    \/ CallIsSome
    \/ CallIsNone
    \/ CallGet
    \/ CallMap
    \/ CallBind
    \/ CallIter
    \/ CallWithDefault

Spec == Init /\ [][Next]_vars

\* Clients of the functions that take a callback and of combine.
NextN ==
    \/ CallSome(PayloadsN, MaxInputsN)
    \/ CallNone(MaxInputsN)
    \/ CallMap
    \/ CallBind
    \/ CallMap2
    \/ CallMap3
    \/ CallBind2
    \/ CallCombine

SpecN == Init /\ [][NextN]_vars

\* bind and bind2 with a binder that returns an instance built before.
CallBindExisting ==
    /\ Building
    /\ \E existing \in Maybes, maybe \in Maybes :
          Invoke("bind", Existing(existing), <<maybe>>,
                 bind(Existing(existing), maybe, World0))

CallBind2Existing ==
    /\ Building
    /\ \E existing \in Maybes, maybe1 \in Maybes, maybe2 \in Maybes :
          Invoke("bind2", Existing(existing), <<maybe1, maybe2>>,
                 bind2(Existing(existing), maybe1, maybe2, World0))

\* The client's array of instances, built before it is handed to combine.
NewArray ==
    /\ Building
    /\ \E list \in ListsOf(Maybes, MaxList) :
          Invoke("Array", NoFn, list, Alloc([kind |-> "Array", elems |-> list], World0))

\* combine(maybes), on the array the client has just built.
CallCombineOn ==
    /\ call.op = "Array"
    /\ Invoke("combine", NoFn, <<result.value>>, combine(result.value, World0))

\* Clients of every function over instances; a payload is a primitive or an
\* instance built before.
NextAll ==
    \/ CallSome(PayloadsN \cup Maybes, MaxInputsN)
    \/ CallNone(MaxInputsN)
    \/ CallToNullable
    \/ CallIsSome
    \/ CallIsNone
    \/ CallGet
    \/ CallMap
    \/ CallBind
    \/ CallBindExisting
    \/ CallMap2
    \/ CallMap3
    \/ CallBind2
    \/ CallBind2Existing
    \/ NewArray
    \/ CallCombineOn
    \/ CallIter
    \/ CallWithDefault

SpecAll == Init /\ [][NextAll]_vars

----------------------------------------------------------------------------
(* What the claims are stated with *)

\* The object the last call's i-th argument denotes, and its result's.
ArgObj(i) == heap[call.args[i].addr]
ResultObj == heap[result.value.addr]

\* The last call returned a reference to an object.
ReturnedObject == result.type = "normal" /\ result.value.type = "object"

\* The falsy values of JavaScript, among the values clients pass in.
Falsy == {Null, Undefined, Num(0), Str(""), Bool(FALSE), NaN}

\* The structure a value denotes in heap h: what a deep comparison looks at.
RECURSIVE DeepValue(_, _)
DeepValue(v, h) ==
    IF v.type # "object"
    THEN v
    ELSE LET o == h[v.addr]
         IN CASE o.kind = "Some" -> [kind |-> "Some", value |-> DeepValue(o.value, h)]
              [] o.kind = "Array" ->
                   [kind |-> "Array",
                    elems |-> [i \in 1..Len(o.elems) |-> DeepValue(o.elems[i], h)]]
              [] OTHER -> o

\* The structure of what a completion returned.
Deep(r) == DeepValue(r.value, r.w.heap)

\* val is what the mapper called name returns for args.
MapperReturns(name, args, val) ==
    CASE name = "id" -> val = args[1]
      [] name = "not" -> val = Bool(args[1] \in Falsy)
      [] name = "constUndefined" -> val = Undefined
      [] name = "pack" -> val.type = "object" /\ heap[val.addr] = [kind |-> "Array", elems |-> args]
      [] name = "last" -> val = args[Len(args)]

\* obj is the instance the binder called name returns for args.
BinderReturns(name, args, obj) ==
    CASE name = "some" -> obj = [kind |-> "Some", value |-> args[1]]
      [] name = "none" -> obj = [kind |-> "None"]
      [] name = "truthy" ->
           obj = IF args[Len(args)] \in Falsy
                 THEN [kind |-> "None"]
                 ELSE [kind |-> "Some", value |-> args[Len(args)]]

\* The payloads of the last call's Maybe arguments, in argument order.
ArgValues == [i \in 1..Len(call.args) |-> ArgObj(i).value]
AllArgsSome == \A i \in 1..Len(call.args) : ArgObj(i).kind = "Some"

----------------------------------------------------------------------------
(* C1 *)

GetMessage == "Expected 'Some' but was given 'None'"

\* C1 (as amended): get(Some(v)) returns v for every payload v; get(None())
\* fails: it throws, and what it throws is a plain Error object (name "Error")
\* whose message is "Expected 'Some' but was given 'None'".
C1_GetReturnsPayloadOrThrowsError ==
    call.op = "get" =>
        /\ ArgObj(1).kind = "Some" =>
              result = [type |-> "normal", value |-> ArgObj(1).value]
        /\ ArgObj(1).kind = "None" =>
              /\ result.type = "throw"
              /\ result.value.type = "object"
              /\ ResultObj = [kind |-> "Error", name |-> "Error", message |-> GetMessage]

\* C1 (as claimed): get(Some(v)) returns v; get(None()) fails and the failure it
\* raises is an EmptyValueError.
C1_GetThrowsEmptyValueError ==
    call.op = "get" =>
        /\ ArgObj(1).kind = "Some" =>
              result = [type |-> "normal", value |-> ArgObj(1).value]
        /\ ArgObj(1).kind = "None" =>
              /\ result.type = "throw"
              /\ result.value.type = "object"
              /\ ResultObj.kind = "Error"
              /\ ResultObj.name = "EmptyValueError"

C1_Witness ==
    /\ call.op = "get"
    /\ ArgObj(1).kind = "None"
    /\ result.type = "throw"

----------------------------------------------------------------------------
(* C2 *)

\* C2: ofVal(v, useTruthyCheck) with useTruthyCheck false or omitted is None
\* iff v is null or undefined, and with useTruthyCheck true is None iff v is
\* falsy; otherwise it is Some(v), holding exactly v.
C2_OfVal ==
    call.op = "ofVal" =>
        LET val == call.args[1]
            absent == IF call.args[2] = Bool(TRUE)
                      THEN val \in Falsy
                      ELSE val \in {Null, Undefined}
        IN /\ ReturnedObject
           /\ ResultObj = IF absent
                          THEN [kind |-> "None"]
                          ELSE [kind |-> "Some", value |-> val]

C2_Witness ==
    /\ call.op = "ofVal"
    /\ call.args = <<Num(0), Bool(TRUE)>>
    /\ ResultObj.kind = "None"

----------------------------------------------------------------------------
(* C3 *)

\* The instance a lifting function's completion returned.
Lifted(r) == r.w.heap[r.value.addr]

\* C3: for every input v, ofNullable(v), ofUndefinable(v) and ofVal(v, false)
\* return the same result: None when v is null, None when v is undefined, and
\* Some(v) for every other v, falsy ones included.
C3_LiftingAgrees ==
    /\ call.op \in {"ofNullable", "ofUndefinable"} =>
          /\ ReturnedObject
          /\ ResultObj = IF call.args[1] \in {Null, Undefined}
                         THEN [kind |-> "None"]
                         ELSE [kind |-> "Some", value |-> call.args[1]]
    /\ \A val \in Values \cup Maybes :
          /\ Lifted(ofNullable(val, World0)) = Lifted(ofVal(val, Bool(FALSE), World0))
          /\ Lifted(ofUndefinable(val, World0)) = Lifted(ofVal(val, Bool(FALSE), World0))

C3_Witness ==
    /\ call.op = "ofUndefinable"
    /\ call.args = <<Null>>
    /\ ResultObj.kind = "None"

----------------------------------------------------------------------------
(* C4 *)

\* C4: map2 and map3 return None iff at least one of their Maybe arguments is
\* None; when all are Some they return Some(f(v1, v2)) resp. Some(f(v1, v2, v3)):
\* f is given each payload in the position of the argument it came from, and
\* what f returns is the payload of the result.
C4_MapN ==
    call.op \in {"map2", "map3"} =>
        /\ ReturnedObject
        /\ ResultObj.kind \in {"None", "Some"}
        /\ ResultObj.kind = "None" <=> \E i \in 1..Len(call.args) : ArgObj(i).kind = "None"
        /\ AllArgsSome =>
              /\ calls = <<[fn |-> call.fn.name, args |-> ArgValues,
                            ret |-> ResultObj.value]>>
              /\ MapperReturns(call.fn.name, ArgValues, ResultObj.value)

C4_Witness ==
    /\ call.op = "map3"
    /\ call.fn = Mapper("pack")
    /\ AllArgsSome
    /\ ArgValues = <<Str("foo"), Num(0), Undefined>>
    /\ ResultObj.kind = "Some"
    /\ heap[ResultObj.value.addr].elems = <<Str("foo"), Num(0), Undefined>>

----------------------------------------------------------------------------
(* C5 *)

\* C5: the callback given to map, bind, map2, bind2 and map3 is not invoked
\* when at least one Maybe argument is None, whatever its position, and is
\* invoked exactly once when every argument is Some.
C5_CallbackInvokedOnceIffAllSome ==
    call.op \in {"map", "bind", "map2", "bind2", "map3"} =>
        /\ Len(calls) = IF AllArgsSome THEN 1 ELSE 0
        /\ \A i \in 1..Len(calls) : calls[i].fn = call.fn.name

C5_Witness ==
    /\ call.op = "map3"
    /\ ArgObj(1).kind = "Some"
    /\ ArgObj(2).kind = "Some"
    /\ ArgObj(3).kind = "None"
    /\ calls = <<>>

----------------------------------------------------------------------------
(* C6 *)

\* The array given to combine, and the instances in it.
CombineList == ArgObj(1).elems
CombineElem(i) == heap[CombineList[i].addr]

\* C6: combine(list) returns Some of the sequence of the payloads, as long as
\* list and in its order, iff every element of list is Some; it returns None
\* if any element is None, whatever its position; combine([]) is Some([]).
C6_Combine ==
    call.op = "combine" =>
        LET allSome == \A i \in 1..Len(CombineList) : CombineElem(i).kind = "Some"
        IN /\ ReturnedObject
           /\ ResultObj.kind \in {"None", "Some"}
           /\ ResultObj.kind = "Some" <=> allSome
           /\ allSome =>
                 /\ ResultObj.value.type = "object"
                 /\ heap[ResultObj.value.addr] =
                       [kind |-> "Array",
                        elems |-> [i \in 1..Len(CombineList) |-> CombineElem(i).value]]
           /\ CombineList = <<>> =>
                 /\ ResultObj.kind = "Some"
                 /\ heap[ResultObj.value.addr] = [kind |-> "Array", elems |-> <<>>]

C6_Witness ==
    /\ call.op = "combine"
    /\ Len(CombineList) = 3
    /\ \A i \in 1..3 : CombineElem(i).kind = "Some"
    /\ [i \in 1..3 |-> CombineElem(i).value] = <<Str("foo"), Undefined, Num(0)>>
    /\ heap[ResultObj.value.addr].elems = <<Str("foo"), Undefined, Num(0)>>

----------------------------------------------------------------------------
(* C7 *)

\* C7: bind(f, Some(v)) returns exactly f(v) and bind2(f, Some(v1), Some(v2))
\* exactly f(v1, v2): the instance the binder returned, Some or None; bind and
\* bind2 return None when a Maybe argument is None.  So the result is None iff
\* an argument is None or the binder yields None.
C7_BindN ==
    call.op \in {"bind", "bind2"} =>
        /\ ReturnedObject
        /\ ResultObj.kind \in {"None", "Some"}
        /\ AllArgsSome =>
              /\ calls = <<[fn |-> call.fn.name, args |-> ArgValues,
                            ret |-> result.value]>>
              /\ BinderReturns(call.fn.name, ArgValues, ResultObj)
        /\ ~AllArgsSome => ResultObj = [kind |-> "None"]
        /\ ResultObj.kind = "None" <=>
              \/ ~AllArgsSome
              \/ BinderReturns(call.fn.name, ArgValues, [kind |-> "None"])

C7_Witness ==
    /\ call.op = "bind2"
    /\ call.fn = Binder("truthy")
    /\ AllArgsSome
    /\ ArgValues = <<Str("foo"), Num(0)>>
    /\ ResultObj = [kind |-> "None"]

----------------------------------------------------------------------------
(* C8 *)

\* The total functions the laws are checked for.
Functions == Mappers1 \cup MappersN

\* C8: for every function f and every Maybe m, bind(x => Some(f(x)), m)
\* equals map(f, m); map(id, m) equals m; and map(g, map(f, m)) equals
\* map(x => g(f(x)), m).  Equality is that of the structures returned; the
\* laws are evaluated on every instance a client has built, and the first
\* also on the map call the client makes.
C8_MapBindLaws ==
    /\ Building =>
          \A m \in Maybes :
              /\ Deep(map(Mapper("id"), m, World0)) = DeepValue(m, heap)
              /\ \A f \in Functions :
                    Deep(bind(SomeOf(f), m, World0)) = Deep(map(f, m, World0))
              /\ \A f \in Functions, g \in Functions :
                    LET inner == map(f, m, World0)
                    IN Deep(map(g, inner.value, inner.w))
                          = Deep(map(Compose(g, f), m, World0))
    /\ call.op = "map" =>
          DeepValue(result.value, heap)
              = Deep(bind(SomeOf(call.fn), call.args[1], World0))

C8_Witness ==
    /\ call.op = "map"
    /\ call.fn = Mapper("constUndefined")
    /\ ArgObj(1) = [kind |-> "Some", value |-> Str("foo")]
    /\ ResultObj = [kind |-> "Some", value |-> Undefined]

----------------------------------------------------------------------------
(* C9 *)

\* C9: iter(action, m) invokes action exactly once, with the payload v as its
\* argument, when m is Some(v), and does not invoke it when m is None; in both
\* cases iter returns nothing (undefined) and m is as it was before the call.
C9_Iter ==
    [][call'.op = "iter" =>
          LET maybe == call'.args[1]
              m == heap[maybe.addr]
          IN /\ result' = [type |-> "normal", value |-> Undefined]
             /\ m.kind = "Some" =>
                   /\ Len(calls') = 1
                   /\ calls'[1].fn = call'.fn.name
                   /\ calls'[1].args = <<m.value>>
             /\ m.kind = "None" => calls' = <<>>
             /\ heap'[maybe.addr] = m]_vars

C9_Witness ==
    /\ call.op = "iter"
    /\ ArgObj(1) = [kind |-> "Some", value |-> Num(0)]
    /\ Len(calls) = 1
    /\ calls[1].args = <<Num(0)>>

----------------------------------------------------------------------------
(* C10 *)

\* C10: presence is decided by the tag alone.  For every m exactly one of
\* isSome(m) and isNone(m) is true; for every payload v, falsy, null and
\* undefined included, Some(v) is present: isSome(Some(v)) is true,
\* withDefault(d, Some(v)) is v and not d, and map(f, Some(v)) invokes f and
\* returns Some(f(v)); withDefault(d, None()) is d and toNullable(None()) null.
C10_TagDecidesPresence ==
    /\ \A m \in Maybes :
          {isSome(m, World0).value, isNone(m, World0).value} = {Bool(TRUE), Bool(FALSE)}
    /\ call.op = "Some" =>
          /\ ReturnedObject
          /\ isSome(result.value, World0).value = Bool(TRUE)
          /\ isNone(result.value, World0).value = Bool(FALSE)
          /\ \A d \in Values :
                withDefault(d, result.value, World0) = Normal(call.args[1], World0)
          /\ \A f \in Mappers1 :
                LET r == map(f, result.value, World0)
                IN /\ Len(r.w.calls) = 1
                   /\ r.w.calls[1].args = <<call.args[1]>>
                   /\ MapperReturns(f.name, <<call.args[1]>>, r.w.calls[1].ret)
                   /\ Lifted(r) = [kind |-> "Some", value |-> r.w.calls[1].ret]
    /\ call.op = "None" =>
          /\ ReturnedObject
          /\ isNone(result.value, World0).value = Bool(TRUE)
          /\ \A d \in Values : withDefault(d, result.value, World0) = Normal(d, World0)
          /\ toNullable(result.value, World0) = Normal(Null, World0)
    /\ call.op = "isSome" => result.value = Bool(ArgObj(1).kind = "Some")
    /\ call.op = "isNone" => result.value = Bool(ArgObj(1).kind = "None")
    /\ call.op = "withDefault" =>
          result.value = IF ArgObj(2).kind = "Some" THEN ArgObj(2).value ELSE call.args[1]
    /\ call.op = "toNullable" =>
          result.value = IF ArgObj(1).kind = "Some" THEN ArgObj(1).value ELSE Null

C10_Witness ==
    /\ call.op = "withDefault"
    /\ call.args[1] = Str("foo")
    /\ ArgObj(2) = [kind |-> "Some", value |-> Null]
    /\ result = [type |-> "normal", value |-> Null]

----------------------------------------------------------------------------
(* C11 *)

\* The functions over instances, and those of them that return a Maybe.
Operations ==
    {"map", "map2", "map3", "bind", "bind2", "combine", "iter", "withDefault",
     "toNullable", "get", "isSome", "isNone"}
ReturnMaybe == {"map", "map2", "map3", "bind", "bind2", "combine"}

\* The step leaves every object that existed before it as it was: every
\* instance its tag and payload, every array its elements in their order.
NothingMutated ==
    /\ Len(heap') >= Len(heap)
    /\ \A a \in 1..Len(heap) : heap'[a] = heap[a]

\* The step's call returned an instance that did not exist before it.
ReturnsNewInstance ==
    /\ result'.type = "normal"
    /\ result'.value.type = "object"
    /\ result'.value.addr > Len(heap)
    /\ heap'[result'.value.addr].kind \in {"Some", "None"}

\* The instances given to the step's call are all Some.
AllArgsSomeBefore == \A i \in 1..Len(call'.args) : heap[call'.args[i].addr].kind = "Some"

\* C11 (as amended): no operation mutates an instance or array it is given:
\* after a call of map, map2, map3, bind, bind2, combine, iter, withDefault,
\* toNullable, get, isSome or isNone every object that existed before the call
\* is as it was.  map, map2, map3 and combine return a new instance; bind and
\* bind2 return a new None when an argument is None, and otherwise the very
\* instance their binder returned, which may have existed before the call.
C11_NoMutationNewUnlessBinders ==
    [][call'.op \in Operations =>
          /\ NothingMutated
          /\ call'.op \in {"map", "map2", "map3", "combine"} => ReturnsNewInstance
          /\ call'.op \in {"bind", "bind2"} =>
                IF AllArgsSomeBefore
                THEN /\ Len(calls') = 1
                     /\ result'.value = calls'[1].ret
                ELSE ReturnsNewInstance]_vars

\* C11 (as claimed): no operation mutates an instance or array it is given,
\* and each operation that returns a Maybe produces a new instance.
C11_NoMutationAlwaysNew ==
    [][call'.op \in Operations =>
          /\ NothingMutated
          /\ call'.op \in ReturnMaybe => ReturnsNewInstance]_vars

C11_Witness ==
    /\ call.op = "bind"
    /\ call.fn.name = "existing"
    /\ ArgObj(1).kind = "Some"
    /\ result = [type |-> "normal", value |-> call.fn.maybe]
    /\ result.value # call.args[1]

====
